---- MODULE Spec2Model ----
(***************************************************************************)
(* Model of the ODT document engine of src/odt.go: the bounded archive     *)
(* reader (NewODTDocument, loadFile), the lazy entry store (doc.files      *)
(* over doc.reader),                                                       *)
(* the tag locator / substitution (FindImageTags, ReplaceImageByTag), the  *)
(* manifest synchroniser (addImageToManifest) and the serialiser (Save,    *)
(* SaveToBytes).                                                           *)
(*                                                                         *)
(* Strings that the code inspects character by character (entry names,     *)
(* image paths) are sequences of one-character strings.  The text of       *)
(* content.xml and of the manifest is a sequence of lexical tokens: the    *)
(* pieces of text that the regular expressions of the code tell apart.     *)
(* Byte slices are records [kind, toks, id, len]: a text (its tokens) or   *)
(* an opaque blob (its identity), with its length in bytes.                *)
(*                                                                         *)
(* Spec is the life of one Document.  ValidatorSpec applies validatePath   *)
(* and validateImageName to strings of their own.  RequestSpec is the      *)
(* request handler ProcessReplaceRequestWithClient, which makes a          *)
(* Document of the request's template, replaces the image of every tag     *)
(* and saves; there hist is the outcome of every tag, tags the response's  *)
(* replaced_tags and out the archive returned.                             *)
(***************************************************************************)
EXTENDS Integers, Sequences, FiniteSets, TLC

VARIABLES
    source,   \* the file that NewODTDocument was given: size, format, entry count
    opened,   \* TRUE when NewODTDocument has returned a document
    reader,   \* doc.reader.File: the index of the original archive, in order
    files,    \* doc.files: the overlay, entry name -> bytes
    pre,      \* doc.files as it was when the last operation was called
    op,       \* the last operation: its name, its arguments and its error
    tags,     \* the slice returned by the last FindImageTags
    out,      \* the entries written by the last Save / SaveToBytes, in order
    io,       \* the file system calls of the last operation, in order
    hist,     \* the ReplaceImageByTag / AddImage calls that returned nil, in order
    nops      \* number of ReplaceImageByTag / AddImage calls made so far

vars == <<source, opened, reader, files, pre, op, tags, out, io, hist, nops>>

----------------------------------------------------------------------------
(* Bounds of the model *)

\* number of ReplaceImageByTag / AddImage calls in one behaviour
MaxOps == 1
\* number of frames of the content part of the original archive
MaxFrames == 2

----------------------------------------------------------------------------
(* Program constants *)

MaxFileSize == 104857600
MaxFilesInArchive == 10000
MaxIndividualFileSize == 52428800
MaxNameLen == 255

----------------------------------------------------------------------------
(* Strings *)

Contains(s, sub) ==
    \E i \in 1..(Len(s) - Len(sub) + 1) : SubSeq(s, i, i + Len(sub) - 1) = sub

DotDot == <<".", ".">>
Slash == <<"/">>
Backslash == <<"\\">>

ContentName == <<"c","o","n","t","e","n","t",".","x","m","l">>
ManifestName ==
    <<"M","E","T","A","-","I","N","F","/","m","a","n","i","f","e","s","t",".","x","m","l">>
MimetypeName == <<"m","i","m","e","t","y","p","e">>

\* filepath.Base on a slash-separated path
RECURSIVE StripTrailingSlashes(_)
StripTrailingSlashes(p) ==
    IF p # <<>> /\ p[Len(p)] = "/"
    THEN StripTrailingSlashes(SubSeq(p, 1, Len(p) - 1))
    ELSE p

RECURSIVE LastElement(_)
LastElement(p) ==
    IF \E i \in 1..Len(p) : p[i] = "/"
    THEN LastElement(Tail(p))
    ELSE p

Base(path) ==
    IF path = <<>> THEN <<".">>
    ELSE LET s == StripTrailingSlashes(path) IN
         IF s = <<>> THEN <<"/">> ELSE LastElement(s)

----------------------------------------------------------------------------
(* Errors *)

Nil == "nil"

\* faulty variant: only the empty path is rejected
validatePathEmptyOnly(path) ==
    IF path = <<>> THEN "ErrInvalidPath" ELSE Nil

\* faulty variant: ".." is looked for at the start of the path only
validatePathPrefix(path) ==
    IF path = <<>> THEN "ErrInvalidPath"
    ELSE IF Len(path) >= 2 /\ SubSeq(path, 1, 2) = DotDot THEN "ErrInvalidPath"
    ELSE Nil

\* validatePath
validatePath(path) ==
    IF path = <<>> THEN "ErrInvalidPath"
    ELSE IF Contains(path, DotDot) THEN "ErrInvalidPath"
    ELSE Nil

\* faulty variant: a name of MaxNameLen bytes is too long already
validateImageNameShort(name) ==
    IF name = <<>> THEN "ErrInvalidImageName"
    ELSE IF Contains(name, DotDot) \/ Contains(name, Slash) \/ Contains(name, Backslash)
         THEN "ErrInvalidImageName"
    ELSE IF Len(name) >= MaxNameLen THEN "ErrInvalidImageName"
    ELSE Nil

\* validateImageName
validateImageName(name) ==
    IF name = <<>> THEN "ErrInvalidImageName"
    ELSE IF Contains(name, DotDot) \/ Contains(name, Slash) \/ Contains(name, Backslash)
         THEN "ErrInvalidImageName"
    ELSE IF Len(name) > MaxNameLen THEN "ErrInvalidImageName"
    ELSE Nil

----------------------------------------------------------------------------
(* Regexp.ReplaceAllString expands its replacement as a template: "$$" is  *)
(* a dollar sign, "$name" and "${name}" are the text of a capture group    *)
(* (nothing when the pattern has no such group), and a "$" that no name    *)
(* follows stands for itself.  Expand gives the expansion as a sequence    *)
(* of characters and of group marks "G0", "G1", "G2".                      *)

WordChars ==
    {"a","b","c","d","e","f","g","h","i","j","k","l","m","n","o","p","q","r","s",
     "t","u","v","w","x","y","z","A","B","C","D","E","F","G","H","I","J","K","L",
     "M","N","O","P","Q","R","S","T","U","V","W","X","Y","Z","0","1","2","3","4",
     "5","6","7","8","9","_"}

RECURSIVE WordPrefixLen(_)
WordPrefixLen(s) ==
    IF s # <<>> /\ Head(s) \in WordChars THEN 1 + WordPrefixLen(Tail(s)) ELSE 0

\* regexp's extract: the name after a "$", and the rest of the template
Extract(str) ==
    IF str = <<>> THEN [ok |-> FALSE, name |-> <<>>, rest |-> <<>>]
    ELSE LET brace == Head(str) = "{"
             s == IF brace THEN Tail(str) ELSE str
             i == WordPrefixLen(s)
         IN  IF i = 0 THEN [ok |-> FALSE, name |-> <<>>, rest |-> <<>>]
             ELSE IF brace /\ (i >= Len(s) \/ s[i + 1] # "}")
                  THEN [ok |-> FALSE, name |-> <<>>, rest |-> <<>>]
             ELSE [ok |-> TRUE, name |-> SubSeq(s, 1, i),
                   rest |-> SubSeq(s, (IF brace THEN i + 2 ELSE i + 1), Len(s))]

\* the text a group reference stands for, in a pattern with n unnamed groups
GroupText(name, n) ==
    IF name = <<"0">> THEN <<"G0">>
    ELSE IF name = <<"1">> /\ n >= 1 THEN <<"G1">>
    ELSE IF name = <<"2">> /\ n >= 2 THEN <<"G2">>
    ELSE <<>>

RECURSIVE Expand(_, _)
Expand(t, n) ==
    IF t = <<>> THEN <<>>
    ELSE IF Head(t) # "$" THEN <<Head(t)>> \o Expand(Tail(t), n)
    ELSE LET r == Tail(t) IN
         IF r # <<>> /\ Head(r) = "$" THEN <<"$">> \o Expand(Tail(r), n)
         ELSE LET e == Extract(r) IN
              IF ~e.ok THEN <<"$">> \o Expand(r, n)
              ELSE GroupText(e.name, n) \o Expand(e.rest, n)

GroupMarks == {"G0", "G1", "G2"}

\* "${1}" + newImagePath + "${2}"
ReplaceTemplate(newImagePath) ==
    <<"$","{","1","}">> \o newImagePath \o <<"$","{","2","}">>

\* The template keeps the frame's text around the reference as it is when
\* its expansion is group 1, characters, group 2.
PlainTemplate(newImagePath) ==
    LET e == Expand(ReplaceTemplate(newImagePath), 2) IN
    /\ Len(e) >= 2
    /\ e[1] = "G1"
    /\ e[Len(e)] = "G2"
    /\ \A i \in 2..(Len(e) - 1) : e[i] \notin GroupMarks

\* the characters that the template puts between the two groups
NewRef(newImagePath) ==
    LET e == Expand(ReplaceTemplate(newImagePath), 2) IN SubSeq(e, 2, Len(e) - 1)

----------------------------------------------------------------------------
(* Bytes and texts *)

Text(toks, n) == [kind |-> "text", toks |-> toks, id |-> "", len |-> n]
Blob(id, n) == [kind |-> "blob", toks |-> <<>>, id |-> id, len |-> n]
NoData == Blob("", 0)

\* []byte(text) for a text made from string(data): the same bytes when the
\* text was not changed
ToBytes(data, toks, n) == IF toks = data.toks THEN data ELSE Text(toks, n)

\* tokens of the content part
TOpen(name) == [k |-> "open", name |-> name, val |-> <<>>]
THref(val)  == [k |-> "href", name |-> "", val |-> val]
TClose      == [k |-> "close", name |-> "", val |-> <<>>]
\* tokens of the manifest
MEntry(path, mime) == [k |-> "entry", name |-> mime, val |-> path]
MEnd         == [k |-> "end", name |-> "", val |-> <<>>]

\* faulty variant: an entry that the overlay already has is kept
PutIfAbsent(fs, name, data) ==
    [n \in (DOMAIN fs) \cup {name} |-> IF n \in DOMAIN fs THEN fs[n] ELSE data]

Put(fs, name, data) ==
    [n \in (DOMAIN fs) \cup {name} |-> IF n = name THEN data ELSE fs[n]]

----------------------------------------------------------------------------
(* Bounded archive reader and lazy entry store *)

\* faulty variant: the file is read before its size is checked
newODTDocumentReadFirst(path, src) ==
    IF validatePath(path) # Nil THEN [err |-> validatePath(path), io |-> <<>>]
    ELSE IF ~src.exists THEN [err |-> "ErrStat", io |-> <<"stat">>]
    ELSE IF src.size > MaxFileSize
         THEN [err |-> "ErrFileTooLarge", io |-> <<"stat", "read">>]
    ELSE IF ~src.zip THEN [err |-> "ErrInvalidODT", io |-> <<"stat", "read">>]
    ELSE IF src.nfiles > MaxFilesInArchive
         THEN [err |-> "ErrTooManyFiles", io |-> <<"stat", "read">>]
    ELSE [err |-> Nil, io |-> <<"stat", "read">>]

\* NewODTDocument: the error returned and the file system calls made.  The
\* document returned when the error is nil has the index of the archive and
\* an empty doc.files.
newODTDocument(path, src) ==
    IF validatePath(path) # Nil THEN [err |-> validatePath(path), io |-> <<>>]
    ELSE IF ~src.exists THEN [err |-> "ErrStat", io |-> <<"stat">>]
    ELSE IF src.size > MaxFileSize THEN [err |-> "ErrFileTooLarge", io |-> <<"stat">>]
    ELSE IF ~src.zip THEN [err |-> "ErrInvalidODT", io |-> <<"stat", "read">>]
    ELSE IF src.nfiles > MaxFilesInArchive
         THEN [err |-> "ErrTooManyFiles", io |-> <<"stat", "read">>]
    ELSE [err |-> Nil, io |-> <<"stat", "read">>]

\* loadFile
loadFile(f) ==
    IF validatePath(f.name) # Nil THEN [err |-> "ErrInvalidPath", data |-> NoData]
    ELSE IF f.size > MaxIndividualFileSize
         THEN [err |-> "ErrFileTooLarge", data |-> NoData]
    \* io.ReadAll(io.LimitReader(rc, MaxIndividualFileSize+1)): the reader of
    \* archive/zip fails when the entry does not have the length its header
    \* declares
    ELSE IF f.data.len # f.size THEN [err |-> "ErrRead", data |-> NoData]
    ELSE IF f.data.len > MaxIndividualFileSize
         THEN [err |-> "ErrFileTooLarge", data |-> NoData]
    ELSE [err |-> Nil, data |-> f.data]

\* loadAllFiles, from entry i of the index on
RECURSIVE loadAllFrom(_, _)
loadAllFrom(fs, i) ==
    IF i > Len(reader) THEN [err |-> Nil, files |-> fs]
    ELSE LET r == loadFile(reader[i]) IN
         IF r.err # Nil THEN [err |-> r.err, files |-> fs]
         ELSE loadAllFrom(Put(fs, reader[i].name, r.data), i + 1)

loadAllFiles(fs) == loadAllFrom(fs, 1)

\* getFile
getFile(fs, name) ==
    IF name \in DOMAIN fs THEN [err |-> Nil, data |-> fs[name], files |-> fs]
    ELSE IF \E i \in 1..Len(reader) : reader[i].name = name
         THEN LET i == CHOOSE j \in 1..Len(reader) :
                          /\ reader[j].name = name
                          /\ \A h \in 1..(j - 1) : reader[h].name # name
                  r == loadFile(reader[i])
              IN  IF r.err # Nil THEN [err |-> r.err, data |-> NoData, files |-> fs]
                  ELSE [err |-> Nil, data |-> r.data, files |-> Put(fs, name, r.data)]
    ELSE [err |-> "ErrNotFound", data |-> NoData, files |-> fs]

\* getContentXML
getContentXML(fs) ==
    LET r == getFile(fs, ContentName) IN
    IF r.err # Nil THEN [err |-> "ErrContentNotFound", data |-> NoData, files |-> r.files]
    ELSE r

\* getManifestXML
getManifestXML(fs) ==
    LET r == getFile(fs, ManifestName) IN
    IF r.err # Nil THEN [err |-> "ErrManifestNotFound", data |-> NoData, files |-> r.files]
    ELSE r

----------------------------------------------------------------------------
(* Content locator and tag substitution *)

\* the least element of a set of positions, 0 when there is none
First(S) == IF S = {} THEN 0 ELSE CHOOSE i \in S : \A j \in S : i <= j

\* sum of the lengths of the values of the tokens of a text
RECURSIVE ValLen(_)
ValLen(toks) == IF toks = <<>> THEN 0 ELSE Len(Head(toks).val) + ValLen(Tail(toks))

\* re.ReplaceAllString(content, "${1}" + newImagePath + "${2}") from token s
\* on: every match of
\*   (<draw:frame[^>]*draw:name="tag"[^>]*>[\s\S]*?xlink:href=")[^"]+("[\s\S]*?</draw:frame>)
\* starts at the first opening frame marker that carries the tag, runs to
\* the first non-empty reference after it and on to the first closing
\* marker after that; the next match is looked for after the closing marker.
RECURSIVE ReplaceAllFrom(_, _, _, _)

\* faulty variant: the pattern does not name the tag
ReplaceAllFromAnyTag(toks, s, tag, ref) ==
    LET i == First({x \in s..Len(toks) : toks[x].k = "open"})
        j == IF i = 0 THEN 0
             ELSE First({x \in (i + 1)..Len(toks) :
                            toks[x].k = "href" /\ toks[x].val # <<>>})
        c == IF j = 0 THEN 0
             ELSE First({x \in (j + 1)..Len(toks) : toks[x].k = "close"})
    IN  IF c = 0 THEN toks
        ELSE ReplaceAllFrom([toks EXCEPT ![j].val = ref], c + 1, tag, ref)

\* faulty variant: only the first match is replaced
ReplaceFirstFrom(toks, s, tag, ref) ==
    LET i == First({x \in s..Len(toks) : toks[x].k = "open" /\ toks[x].name = tag})
        j == IF i = 0 THEN 0
             ELSE First({x \in (i + 1)..Len(toks) :
                            toks[x].k = "href" /\ toks[x].val # <<>>})
        c == IF j = 0 THEN 0
             ELSE First({x \in (j + 1)..Len(toks) : toks[x].k = "close"})
    IN  IF c = 0 THEN toks ELSE [toks EXCEPT ![j].val = ref]

ReplaceAllFrom(toks, s, tag, ref) ==
    LET i == First({x \in s..Len(toks) : toks[x].k = "open" /\ toks[x].name = tag})
        j == IF i = 0 THEN 0
             ELSE First({x \in (i + 1)..Len(toks) :
                            toks[x].k = "href" /\ toks[x].val # <<>>})
        c == IF j = 0 THEN 0
             ELSE First({x \in (j + 1)..Len(toks) : toks[x].k = "close"})
    IN  IF c = 0 THEN toks
        ELSE ReplaceAllFrom([toks EXCEPT ![j].val = ref], c + 1, tag, ref)

ReplaceAllString(toks, tag, newImagePath) ==
    ReplaceAllFrom(toks, 1, tag, NewRef(newImagePath))

\* drawFrameRegex.FindAllString(content, -1) from token s on, and for each
\* frame the first draw:name="..." in it: <draw:frame[^>]*>[\s\S]*?</draw:frame>
\* runs from an opening marker to the first closing marker after it.
RECURSIVE FrameNamesFrom(_, _)
FrameNamesFrom(toks, s) ==
    LET i == First({x \in s..Len(toks) : toks[x].k = "open"})
        c == IF i = 0 THEN 0
             ELSE First({x \in (i + 1)..Len(toks) : toks[x].k = "close"})
    IN  IF c = 0 THEN <<>>
        ELSE LET n == First({x \in i..c : toks[x].k = "open" /\ toks[x].name # ""})
             IN  (IF n = 0 THEN <<>> ELSE <<toks[n].name>>) \o FrameNamesFrom(toks, c + 1)

\* the seen-map loop of FindImageTags: first occurrences, in order
RECURSIVE Dedup(_)
Dedup(names) ==
    IF names = <<>> THEN <<>>
    ELSE LET d == Dedup(SubSeq(names, 1, Len(names) - 1))
             x == names[Len(names)]
         IN  IF \E i \in 1..Len(d) : d[i] = x THEN d ELSE Append(d, x)

FindTags(toks) == Dedup(FrameNamesFrom(toks, 1))

----------------------------------------------------------------------------
(* Manifest synchroniser *)

\* filepath.Ext: from the last dot of the last element on
RECURSIVE Ext(_)
Ext(path) ==
    IF path = <<>> \/ path[Len(path)] = "/" THEN <<>>
    ELSE IF path[Len(path)] = "." THEN <<".">>
    ELSE LET e == Ext(SubSeq(path, 1, Len(path) - 1)) IN
         IF e = <<>> THEN <<>> ELSE Append(e, path[Len(path)])

Upper == <<"A","B","C","D","E","F","G","H","I","J","K","L","M","N","O","P","Q","R",
           "S","T","U","V","W","X","Y","Z">>
Lower == <<"a","b","c","d","e","f","g","h","i","j","k","l","m","n","o","p","q","r",
           "s","t","u","v","w","x","y","z">>

\* strings.ToLower
ToLower(s) ==
    [i \in 1..Len(s) |->
        IF \E u \in 1..Len(Upper) : Upper[u] = s[i]
        THEN Lower[CHOOSE u \in 1..Len(Upper) : Upper[u] = s[i]]
        ELSE s[i]]

\* detectMIMEType
detectMIMEType(path) ==
    LET ext == ToLower(Ext(path)) IN
    IF ext = <<".","p","n","g">> THEN "image/png"
    ELSE IF ext = <<".","j","p","g">> \/ ext = <<".","j","p","e","g">> THEN "image/jpeg"
    ELSE IF ext = <<".","g","i","f">> THEN "image/gif"
    ELSE IF ext = <<".","s","v","g">> THEN "image/svg+xml"
    ELSE IF ext = <<".","w","e","b","p">> THEN "image/webp"
    ELSE "application/octet-stream"

\* regexp.MatchString(<manifest:file-entry[^>]*manifest:full-path="imagePath"[^>]*/>)
EntryExists(toks, imagePath) ==
    \E i \in 1..Len(toks) : toks[i].k = "entry" /\ toks[i].val = imagePath

\* the full-path that the replacement template writes: imagePath stands in
\* the template, followed by a double quote, and is expanded with it
ManifestRef(imagePath) ==
    LET e == Expand(Append(imagePath, "\""), 0) IN SubSeq(e, 1, Len(e) - 1)

\* manifestEndRegex.ReplaceAllString(manifest, entry + "\n</manifest:manifest>")
RECURSIVE InsertBeforeEnd(_, _)
InsertBeforeEnd(toks, entry) ==
    IF toks = <<>> THEN <<>>
    ELSE IF Head(toks).k = "end"
         THEN <<entry, Head(toks)>> \o InsertBeforeEnd(Tail(toks), entry)
    ELSE <<Head(toks)>> \o InsertBeforeEnd(Tail(toks), entry)

\* length of the text of a record with an empty path and an empty media
\* type, with the line feed that follows it
EntryOverhead == 73

MimeLen(mime) ==
    IF mime = "image/png" THEN 9
    ELSE IF mime = "image/jpeg" THEN 10
    ELSE IF mime = "image/gif" THEN 9
    ELSE IF mime = "image/svg+xml" THEN 13
    ELSE IF mime = "image/webp" THEN 10
    ELSE 24

\* faulty variant: the record is inserted whether or not the manifest has one
addImageToManifestAlways(fs, imagePath) ==
    LET m == getManifestXML(fs) IN
    IF m.err # Nil THEN [err |-> m.err, files |-> m.files]
    ELSE LET entry == MEntry(ManifestRef(imagePath), detectMIMEType(imagePath))
             newToks == InsertBeforeEnd(m.data.toks, entry)
         IN  [err |-> Nil,
              files |-> Put(m.files, ManifestName, ToBytes(m.data, newToks, m.data.len + 1))]

\* addImageToManifest
addImageToManifest(fs, imagePath) ==
    LET m == getManifestXML(fs) IN
    IF m.err # Nil THEN [err |-> m.err, files |-> m.files]
    ELSE IF EntryExists(m.data.toks, imagePath) THEN [err |-> Nil, files |-> m.files]
    ELSE LET entry == MEntry(ManifestRef(imagePath), detectMIMEType(imagePath))
             newToks == InsertBeforeEnd(m.data.toks, entry)
             ends == Cardinality({i \in 1..Len(m.data.toks) : m.data.toks[i].k = "end"})
             n == m.data.len
                  + ends * (EntryOverhead + Len(entry.val) + MimeLen(entry.name))
         IN  [err |-> Nil,
              files |-> Put(m.files, ManifestName, ToBytes(m.data, newToks, n))]

----------------------------------------------------------------------------
(* The operations on a document, as functions of the overlay *)

\* ReplaceImageByTag: the error returned and the overlay left behind
replaceImageByTag(fs, tag, newImagePath, newImageData) ==
    IF tag = "" THEN [err |-> "ErrEmptyTag", files |-> fs]
    ELSE IF newImageData.len = 0 THEN [err |-> "ErrEmptyData", files |-> fs]
    ELSE IF newImageData.len > MaxIndividualFileSize
         THEN [err |-> "ErrFileTooLarge", files |-> fs]
    ELSE IF validateImageName(Base(newImagePath)) # Nil
         THEN [err |-> validateImageName(Base(newImagePath)), files |-> fs]
    ELSE LET c == getContentXML(fs) IN
         IF c.err # Nil THEN [err |-> c.err, files |-> c.files]
         ELSE LET newToks == ReplaceAllString(c.data.toks, tag, newImagePath)
                  n == c.data.len + ValLen(newToks) - ValLen(c.data.toks)
              IN  IF newToks = c.data.toks
                  THEN [err |-> "ErrImageNotFound", files |-> c.files]
                  ELSE LET m == addImageToManifest(
                                    Put(c.files, ContentName, Text(newToks, n)),
                                    newImagePath)
                       IN  IF m.err # Nil THEN [err |-> m.err, files |-> m.files]
                           ELSE [err |-> Nil,
                                 files |-> Put(m.files, newImagePath, newImageData)]

\* faulty variant: the entries are loaded before the payload is checked
addImageLoadFirst(fs, imagePath, imageData) ==
    LET l == IF Cardinality(DOMAIN fs) = 0 THEN loadAllFiles(fs)
             ELSE [err |-> Nil, files |-> fs]
    IN  IF imageData.len = 0 THEN [err |-> "ErrEmptyData", files |-> l.files]
        ELSE IF imageData.len > MaxIndividualFileSize
             THEN [err |-> "ErrFileTooLarge", files |-> l.files]
        ELSE IF validatePath(imagePath) # Nil
             THEN [err |-> validatePath(imagePath), files |-> l.files]
        ELSE IF l.err # Nil THEN l
        ELSE addImageToManifest(Put(l.files, imagePath, imageData), imagePath)

\* AddImage: the error returned and the overlay left behind
addImage(fs, imagePath, imageData) ==
    IF imageData.len = 0 THEN [err |-> "ErrEmptyData", files |-> fs]
    ELSE IF imageData.len > MaxIndividualFileSize
         THEN [err |-> "ErrFileTooLarge", files |-> fs]
    ELSE IF validatePath(imagePath) # Nil
         THEN [err |-> validatePath(imagePath), files |-> fs]
    ELSE LET l == IF Cardinality(DOMAIN fs) = 0 THEN loadAllFiles(fs)
                  ELSE [err |-> Nil, files |-> fs]
         IN  IF l.err # Nil THEN l
             ELSE addImageToManifest(Put(l.files, imagePath, imageData), imagePath)

\* names of the index of the original archive
ReaderNames == {reader[i].name : i \in 1..Len(reader)}

\* first loop of Save / SaveToBytes, from entry i of the index on: every
\* original entry, with the overlay's bytes when the overlay has the name
RECURSIVE writeOriginals(_, _)

\* faulty variant: the original bytes are written even when the overlay has the name
writeOriginalsOnly(fs, i) ==
    IF i > Len(reader) THEN [err |-> Nil, out |-> <<>>]
    ELSE LET f == reader[i]
             r == loadFile(f)
         IN  IF r.err # Nil THEN [err |-> r.err, out |-> <<>>]
             ELSE LET rest == writeOriginals(fs, i + 1) IN
                  IF rest.err # Nil THEN rest
                  ELSE [err |-> Nil,
                        out |-> <<[name |-> f.name, data |-> r.data]>> \o rest.out]

\* faulty variant: the entries of the overlay are written first
writeOriginalsOverlayFirst(fs, i) ==
    LET w == writeOriginalsOnly(fs, i)
        inOverlay == SelectSeq(w.out, LAMBDA e : e.name \in DOMAIN fs)
        others == SelectSeq(w.out, LAMBDA e : e.name \notin DOMAIN fs)
    IN  IF w.err # Nil THEN w
        ELSE [err |-> Nil,
              out |-> [j \in 1..Len(inOverlay) |->
                          [name |-> inOverlay[j].name, data |-> fs[inOverlay[j].name]]]
                      \o others]

writeOriginals(fs, i) ==
    IF i > Len(reader) THEN [err |-> Nil, out |-> <<>>]
    ELSE LET f == reader[i]
             r == IF f.name \in DOMAIN fs THEN [err |-> Nil, data |-> fs[f.name]]
                  ELSE loadFile(f)
         IN  IF r.err # Nil THEN [err |-> r.err, out |-> <<>>]
             ELSE LET rest == writeOriginals(fs, i + 1) IN
                  IF rest.err # Nil THEN rest
                  ELSE [err |-> Nil,
                        out |-> <<[name |-> f.name, data |-> r.data]>> \o rest.out]

\* second loop of Save / SaveToBytes: the names of the overlay that the
\* index does not have, in the order in which the map is ranged over
\* faulty variant: the second loop does not skip the names of the index
AllNames(fs) == DOMAIN fs

NewNames(fs) == (DOMAIN fs) \ ReaderNames

Orders(S) ==
    {o \in [1..Cardinality(S) -> S] : \A i, j \in 1..Cardinality(S) : o[i] = o[j] => i = j}

\* faulty variant: the second loop is missing
writeNewNone(fs, order) == <<>>

writeNew(fs, order) ==
    [i \in 1..Len(order) |-> [name |-> order[i], data |-> fs[order[i]]]]

\* buf.Bytes() after writer.Close(): a lower bound of the length of the
\* archive written.  Every entry has a local header, a data descriptor and a
\* directory header, each with the name; the blobs are image data, which
\* deflate does not make shorter; the texts, which it does, are not counted.
RECURSIVE ZipSize(_)
ZipSize(entries) ==
    IF entries = <<>> THEN 22
    ELSE LET e == Head(entries) IN
         92 + 2 * Len(e.name) + (IF e.data.kind = "blob" THEN e.data.len ELSE 0)
            + ZipSize(Tail(entries))

----------------------------------------------------------------------------
(* Archives and arguments *)

OldPng == <<"P","/","o",".","p","n","g">>
PhotoPng == <<"P","/","p",".","p","n","g">>
NewPng == <<"P","/","n",".","p","n","g">>
UpPng == <<".",".","/","e",".","p","n","g">>
UpDir == <<"P","/",".",".">>
BackPng == <<"a","\\","b",".","p","n","g">>
DollarPng == <<"P","/","a","$","b",".","p","n","g">>
OutOdt == <<"o","u","t",".","o","d","t">>

\* length of the text of the content part and of the manifest of the archives
BaseLen == 1000

Entry(name, data) == [name |-> name, data |-> data, size |-> data.len]

FrameKinds ==
    { <<TOpen("image1"), THref(OldPng), TClose>>,
      <<TOpen("image1"), TClose>>,
      <<TOpen("photo1"), THref(PhotoPng), TClose>>,
      <<TOpen(""), THref(OldPng), TClose>> }

RECURSIVE Contents(_)
Contents(n) ==
    IF n = 0 THEN {<<>>}
    ELSE LET C == Contents(n - 1) IN C \cup {c \o f : c \in C, f \in FrameKinds}

TwoFrames ==
    <<TOpen("image1"), THref(OldPng), TClose, TOpen("photo1"), THref(PhotoPng), TClose>>

ContentEntry(toks) == Entry(ContentName, Text(toks, BaseLen))
ManifestEntry ==
    Entry(ManifestName, Text(<<MEntry(OldPng, "image/png"), MEnd>>, BaseLen))
MimetypeEntry == Entry(MimetypeName, Blob("mimetype", 39))
OldEntry == Entry(OldPng, Blob("old", 1))

\* a frame with a caption: the frame of the image lies inside another frame
NestedFrames ==
    <<TOpen("image1"), TOpen("photo1"), THref(PhotoPng), TClose, TClose>>

Archives ==
    \* well-formed archives
    { <<MimetypeEntry, ContentEntry(c), ManifestEntry, OldEntry>> : c \in Contents(MaxFrames) }
    \* no manifest
    \cup {
      <<MimetypeEntry, ContentEntry(TwoFrames), OldEntry>>,
      \* no content part
      <<MimetypeEntry, ManifestEntry, OldEntry>>,
      \* an entry over the per-entry cap
      <<MimetypeEntry, ContentEntry(TwoFrames), ManifestEntry,
        Entry(OldPng, Blob("huge", MaxIndividualFileSize + 1))>>,
      \* two entries of the same name
      <<MimetypeEntry, ContentEntry(TwoFrames), ManifestEntry, OldEntry,
        Entry(OldPng, Blob("old2", 1))>>,
      \* an entry whose name has a parent-directory segment
      <<MimetypeEntry, ContentEntry(TwoFrames), ManifestEntry, Entry(UpPng, Blob("up", 1))>>,
      \* a frame inside a frame
      <<MimetypeEntry, ContentEntry(NestedFrames), ManifestEntry, OldEntry>>,
      \* a content part over the per-entry cap
      <<MimetypeEntry, Entry(ContentName, Text(TwoFrames, MaxIndividualFileSize + 1)),
        ManifestEntry, OldEntry>>,
      \* an entry longer than its header declares
      <<MimetypeEntry, ContentEntry(TwoFrames), ManifestEntry,
        [name |-> OldPng, data |-> Blob("bomb", MaxIndividualFileSize + 1), size |-> 1]>>,
      \* a manifest without its closing marker
      <<MimetypeEntry, ContentEntry(TwoFrames),
        Entry(ManifestName, Text(<<MEntry(OldPng, "image/png")>>, BaseLen)), OldEntry>>,
      \* a picture as long as the per-entry cap allows
      <<MimetypeEntry, ContentEntry(TwoFrames), ManifestEntry,
        Entry(OldPng, Blob("old50", MaxIndividualFileSize))>>,
      \* a manifest as long as the per-entry cap allows
      <<MimetypeEntry, ContentEntry(TwoFrames),
        Entry(ManifestName, Text(ManifestEntry.data.toks, MaxIndividualFileSize)),
        OldEntry>> }

\* the files that NewODTDocument is given
Source(entries) ==
    [exists |-> TRUE, size |-> ZipSize(entries), zip |-> TRUE,
     nfiles |-> Len(entries), entries |-> entries]

WellFormed == <<MimetypeEntry, ContentEntry(TwoFrames), ManifestEntry, OldEntry>>

Sources ==
    {Source(a) : a \in Archives}
    \cup {
      \* no such file
      [Source(<<>>) EXCEPT !.exists = FALSE],
      \* a file of MaxFileSize bytes, and one byte more
      [Source(WellFormed) EXCEPT !.size = MaxFileSize],
      [Source(WellFormed) EXCEPT !.size = MaxFileSize + 1],
      \* not a zip archive
      [Source(<<>>) EXCEPT !.zip = FALSE],
      \* an archive of MaxFilesInArchive + 1 entries: no document is made of
      \* it, its entries are not listed
      [Source(<<>>) EXCEPT !.nfiles = MaxFilesInArchive + 1] }

InOdt == <<"i","n",".","o","d","t">>
InputPaths == {InOdt, UpPng, <<>>}

Img1 == Blob("img1", 1)
Img2 == Blob("img2", MaxIndividualFileSize)
Empty == Blob("empty", 0)
Big == Blob("big", MaxIndividualFileSize + 1)

Tags == {"image1", "photo1", "nosuch"}
ImagePaths == {NewPng, OldPng, UpPng, UpDir, BackPng, DollarPng, ContentName, <<>>}

\* The image paths of the calls are those whose template is plain: the
\* text of content.xml stays a sequence of the tokens above.
ReplaceInputs ==
    {in \in ({"image1"} \X ImagePaths \X {Img1}) : PlainTemplate(in[2])}
    \cup {<<t, p, Img1>> : t \in Tags \ {"image1"}, p \in {NewPng, OldPng, UpPng}}
    \cup {<<"image1", NewPng, d>> : d \in {Img2, Empty, Big}}
    \cup {<<"", NewPng, d>> : d \in {Img1, Big}}

AddInputs == (ImagePaths \X {Img1}) \cup {<<NewPng, d>> : d \in {Img2, Empty, Big}}

OutputPaths == {OutOdt, UpPng, <<>>}

----------------------------------------------------------------------------
(* The state machine *)

NoOp == [name |-> "", tag |-> "", path |-> <<>>, data |-> NoData, err |-> Nil]

NoSource == [exists |-> FALSE, size |-> 0, zip |-> FALSE, nfiles |-> 0]

Init ==
    /\ source = NoSource
    /\ opened = FALSE
    /\ reader = <<>>
    /\ files = <<>>
    /\ pre = <<>>
    /\ op = NoOp
    /\ tags = <<>>
    /\ out = <<>>
    /\ io = <<>>
    /\ hist = <<>>
    /\ nops = 0

NewODTDocument(path, src) ==
    /\ ~opened
    /\ op = NoOp
    /\ LET r == newODTDocument(path, src) IN
       /\ opened' = (r.err = Nil)
       /\ reader' = IF r.err = Nil THEN src.entries ELSE <<>>
       /\ io' = r.io
       /\ op' = [name |-> "NewODTDocument", tag |-> "", path |-> path,
                 data |-> NoData, err |-> r.err]
    /\ source' = [exists |-> src.exists, size |-> src.size, zip |-> src.zip,
                  nfiles |-> src.nfiles]
    /\ files' = <<>>
    /\ pre' = <<>>
    /\ tags' = <<>>
    /\ out' = <<>>
    /\ UNCHANGED <<hist, nops>>

ReplaceImageByTag(tag, newImagePath, newImageData) ==
    /\ opened
    /\ nops < MaxOps
    /\ LET r == replaceImageByTag(files, tag, newImagePath, newImageData) IN
       /\ files' = r.files
       /\ op' = [name |-> "ReplaceImageByTag", tag |-> tag, path |-> newImagePath,
                 data |-> newImageData, err |-> r.err]
       /\ hist' = IF r.err = Nil
                  THEN Append(hist, [name |-> "ReplaceImageByTag",
                                     path |-> newImagePath, data |-> newImageData])
                  ELSE hist
    /\ pre' = files
    /\ nops' = nops + 1
    /\ tags' = <<>>
    /\ out' = <<>>
    /\ io' = <<>>
    /\ UNCHANGED <<source, opened, reader>>

AddImage(imagePath, imageData) ==
    /\ opened
    /\ nops < MaxOps
    /\ LET r == addImage(files, imagePath, imageData) IN
       /\ files' = r.files
       /\ op' = [name |-> "AddImage", tag |-> "", path |-> imagePath,
                 data |-> imageData, err |-> r.err]
       /\ hist' = IF r.err = Nil
                  THEN Append(hist, [name |-> "AddImage",
                                     path |-> imagePath, data |-> imageData])
                  ELSE hist
    /\ pre' = files
    /\ nops' = nops + 1
    /\ tags' = <<>>
    /\ out' = <<>>
    /\ io' = <<>>
    /\ UNCHANGED <<source, opened, reader>>

FindImageTags ==
    /\ opened
    /\ LET c == getContentXML(files) IN
       /\ files' = c.files
       /\ tags' = IF c.err # Nil THEN <<>> ELSE FindTags(c.data.toks)
       /\ op' = [name |-> "FindImageTags", tag |-> "", path |-> <<>>,
                 data |-> NoData, err |-> c.err]
    /\ pre' = files
    /\ out' = <<>>
    /\ io' = <<>>
    /\ UNCHANGED <<source, opened, reader, hist, nops>>

\* faulty variant: the original entries are read through the overlay, which
\* keeps them
WriteArchiveCaching(opname, outputPath) ==
    LET w == writeOriginals(files, 1) IN
    /\ \E order \in Orders(NewNames(files)) :
          out' = IF w.err # Nil THEN <<>> ELSE w.out \o writeNew(files, order)
    /\ op' = [name |-> opname, tag |-> "", path |-> outputPath,
              data |-> NoData, err |-> w.err]
    /\ io' = IF w.err = Nil /\ opname = "Save" THEN <<"write">> ELSE <<>>
    /\ pre' = files
    /\ tags' = <<>>
    /\ files' = loadAllFiles(files).files
    /\ UNCHANGED <<source, opened, reader, hist, nops>>

\* the body that Save and SaveToBytes share; Save writes the archive to the
\* output file with os.WriteFile
WriteArchive(opname, outputPath) ==
    LET w == writeOriginals(files, 1) IN
    /\ \E order \in Orders(NewNames(files)) :
          out' = IF w.err # Nil THEN <<>> ELSE w.out \o writeNew(files, order)
    /\ op' = [name |-> opname, tag |-> "", path |-> outputPath,
              data |-> NoData, err |-> w.err]
    /\ io' = IF w.err = Nil /\ opname = "Save" THEN <<"write">> ELSE <<>>
    /\ pre' = files
    /\ tags' = <<>>
    /\ UNCHANGED <<source, opened, reader, files, hist, nops>>

Save(outputPath) ==
    /\ opened
    /\ IF validatePath(outputPath) # Nil
       THEN /\ op' = [name |-> "Save", tag |-> "", path |-> outputPath,
                      data |-> NoData, err |-> validatePath(outputPath)]
            /\ out' = <<>>
            /\ io' = <<>>
            /\ pre' = files
            /\ tags' = <<>>
            /\ UNCHANGED <<source, opened, reader, files, hist, nops>>
       ELSE WriteArchive("Save", outputPath)

SaveToBytes == opened /\ WriteArchive("SaveToBytes", <<>>)

Next ==
    \/ \E path \in InputPaths, src \in Sources : NewODTDocument(path, src)
    \/ \E in \in ReplaceInputs : ReplaceImageByTag(in[1], in[2], in[3])
    \/ \E in \in AddInputs : AddImage(in[1], in[2])
    \/ FindImageTags
    \/ \E p \in OutputPaths : Save(p)
    \/ SaveToBytes

Spec == Init /\ [][Next]_vars

----------------------------------------------------------------------------
(* Vocabulary of the properties *)

IsReplace == op.name = "ReplaceImageByTag"
IsAdd == op.name = "AddImage"
SaveOK == op.name \in {"Save", "SaveToBytes"} /\ op.err = Nil

OutNames == {out[i].name : i \in DOMAIN out}
Count(seq, n) == Cardinality({i \in DOMAIN seq : seq[i].name = n})

\* the text of the content part as the code reads it, before and after the
\* last operation
ContentBefore == getContentXML(pre).data.toks
ContentAfter == getContentXML(files).data.toks

\* draw:name of the frame that token x lies in: the nearest opening marker
\* at or before x
Owner(toks, x) ==
    LET S == {y \in 1..x : toks[y].k = "open"} IN
    IF S = {} THEN "" ELSE toks[CHOOSE y \in S : \A z \in S : z <= y].name

\* positions of the references (non-empty) of the frames named tag
RefsOf(toks, tag) ==
    {x \in 1..Len(toks) : toks[x].k = "href" /\ toks[x].val # <<>> /\ Owner(toks, x) = tag}

\* the image reference of the first frame named tag, <<>> when it has none
FrameRef(toks, tag) ==
    LET i == First({x \in 1..Len(toks) : toks[x].k = "open" /\ toks[x].name = tag})
        c == IF i = 0 THEN 0 ELSE First({x \in (i + 1)..Len(toks) : toks[x].k = "close"})
        j == IF c = 0 THEN 0 ELSE First({x \in i..c : toks[x].k = "href"})
    IN  IF j = 0 THEN <<>> ELSE toks[j].val

NoFrameCarries(toks, tag) ==
    \A x \in 1..Len(toks) : ~(toks[x].k = "open" /\ toks[x].name = tag)

ValidPayload(d) == d.len > 0 /\ d.len <= MaxIndividualFileSize

HasParentOrSeparator(p) ==
    Contains(p, DotDot) \/ Contains(p, Slash) \/ Contains(p, Backslash)

----------------------------------------------------------------------------
(* C1 *)

----------------------------------------------------------------------------
(* C2 *)

\* C2: every entry written by a successful Save / SaveToBytes has the
\* overlay's bytes when the overlay has its name (whether or not the
\* original archive has it too), and the bytes of its own original entry
\* when only the original archive has the name.
C2_OutputBytes ==
    SaveOK =>
        \A i \in DOMAIN out :
            IF out[i].name \in DOMAIN files
            THEN out[i].data = files[out[i].name]
            ELSE /\ i <= Len(reader)
                 /\ out[i].name = reader[i].name
                 /\ out[i].data = reader[i].data

C2_Witness ==
    /\ SaveOK
    /\ \E i \in DOMAIN out : /\ out[i].name \in (DOMAIN files) \cap ReaderNames
                             /\ files[out[i].name] # reader[i].data
    /\ \E i \in DOMAIN out : out[i].name \in ReaderNames \ DOMAIN files
    /\ \E i \in DOMAIN out : out[i].name \in (DOMAIN files) \ ReaderNames

----------------------------------------------------------------------------
(* C3 *)

\* C3 as stated: when ReplaceImageByTag fails because the manifest cannot be
\* obtained, the content part is not rewritten in the overlay and no image
\* entry is added.  Refuted: the rewritten content part is stored before
\* the manifest is looked up.
C3_ManifestFailureKeepsOverlay ==
    (IsReplace /\ op.err = "ErrManifestNotFound") =>
        /\ ContentAfter = ContentBefore
        /\ (DOMAIN files) \ {ContentName} = (DOMAIN pre) \ {ContentName}

----------------------------------------------------------------------------
(* C4 *)

\* C4 as stated: whenever AddImage returns an error the overlay is what it
\* was before the call.  Refuted: the image is stored before the manifest is
\* looked up, and loadAllFiles keeps the entries it loaded before it failed.
C4_FailedAddKeepsOverlay ==
    (IsAdd /\ op.err # Nil) => files = pre

----------------------------------------------------------------------------
(* C5 *)

\* C5 as stated, for the names with a parent-directory marker: AddImage and
\* ReplaceImageByTag fail with ErrInvalidImageName or ErrInvalidPath and
\* leave the overlay unmodified.  The calls taken are those that nothing but
\* the path can make fail: the same call with the plain path P/n.png
\* succeeds.  Refuted: ReplaceImageByTag validates only the last element of
\* the path.
C5_ParentDirRejected ==
    (/\ IsAdd \/ IsReplace
     /\ IsAdd => addImage(pre, NewPng, op.data).err = Nil
     /\ IsReplace => replaceImageByTag(pre, op.tag, NewPng, op.data).err = Nil
     /\ Contains(op.path, DotDot)) =>
        /\ op.err \in {"ErrInvalidImageName", "ErrInvalidPath"}
        /\ files = pre

----------------------------------------------------------------------------
(* C6 *)

\* C6 as stated: no key of the overlay and no entry name written by a
\* successful Save / SaveToBytes contains a parent-directory segment.
\* Refuted: ReplaceImageByTag stores the image under the whole path.
C6_NoParentDirInNames ==
    /\ \A n \in DOMAIN files : ~Contains(n, DotDot)
    /\ SaveOK => \A i \in DOMAIN out : ~Contains(out[i].name, DotDot)

----------------------------------------------------------------------------
(* C7 *)

\* C7 as stated: on a document whose content part and manifest can be read,
\* for a tag that FindImageTags reports and whose frame has an image
\* reference, an image path that passes the name check and a payload within
\* the cap, ReplaceImageByTag succeeds, the tag is still reported and the
\* reference of its frame is the path.
\* Refuted: the call fails when the frame already refers to the path, and a
\* "$" in the path is expanded as a template.
C7_ReplaceSetsReference ==
    (/\ IsReplace
     /\ getContentXML(pre).err = Nil
     /\ getManifestXML(pre).err = Nil
     /\ \E i \in 1..Len(FindTags(ContentBefore)) : FindTags(ContentBefore)[i] = op.tag
     /\ FrameRef(ContentBefore, op.tag) # <<>>
     /\ validateImageName(Base(op.path)) = Nil
     /\ ValidPayload(op.data)) =>
        /\ op.err = Nil
        /\ \E i \in 1..Len(FindTags(ContentAfter)) : FindTags(ContentAfter)[i] = op.tag
        /\ FrameRef(ContentAfter, op.tag) = op.path

----------------------------------------------------------------------------
(* C8 *)

ReplaceLeftPartsAlone ==
    /\ getContentXML(files).data = getContentXML(pre).data
    /\ (DOMAIN files) \ {ContentName} = (DOMAIN pre) \ {ContentName}
    /\ \A n \in (DOMAIN pre) \ {ContentName} : files[n] = pre[n]

\* C8 as stated: ReplaceImageByTag with a (non-empty) tag that no frame
\* carries returns ErrImageNotFound and leaves content part, manifest and
\* image entries unchanged.  Refuted: the payload and the image name are
\* checked first, and a content part that cannot be read gives another error.
C8_UnknownTagNotFound ==
    (IsReplace /\ op.tag # "" /\ NoFrameCarries(ContentBefore, op.tag)) =>
        /\ op.err = "ErrImageNotFound"
        /\ ReplaceLeftPartsAlone

\* C8 (amended): ReplaceImageByTag with a non-empty tag that no frame
\* carries, a payload and an image name that pass their checks, on a
\* document whose content part can be read, returns ErrImageNotFound; the
\* bytes of the content part, the manifest and every other overlay entry
\* are unchanged.
C8_UnknownTagNotFoundValidArgs ==
    (/\ IsReplace
     /\ op.tag # ""
     /\ ValidPayload(op.data)
     /\ validateImageName(Base(op.path)) = Nil
     /\ getContentXML(pre).err = Nil
     /\ NoFrameCarries(ContentBefore, op.tag)) =>
        /\ op.err = "ErrImageNotFound"
        /\ ReplaceLeftPartsAlone

C8_Witness ==
    /\ IsReplace
    /\ op.tag = "nosuch"
    /\ op.err = "ErrImageNotFound"
    /\ ContentBefore # <<>>
    /\ ManifestName \notin DOMAIN files

----------------------------------------------------------------------------
(* C9 *)

\* C9 as stated: a successful ReplaceImageByTag (of an image that is not
\* stored under the name of the content part) changes nothing of the
\* content part but the image reference of the frame named by the tag.
\* Refuted: when that frame has no reference, the reference of the frame
\* after it is rewritten.
C9_OnlyTaggedFrameChanges ==
    (IsReplace /\ op.err = Nil /\ op.path # ContentName) =>
        /\ Len(ContentAfter) = Len(ContentBefore)
        /\ \A x \in 1..Len(ContentBefore) :
              ContentAfter[x] # ContentBefore[x] =>
                  /\ ContentBefore[x].k = "href"
                  /\ Owner(ContentBefore, x) = op.tag

----------------------------------------------------------------------------
(* C10 *)

----------------------------------------------------------------------------
(* Vocabulary of the properties of FindImageTags, Save and NewODTDocument  *)

IsFind == op.name = "FindImageTags"
IsOpen == op.name = "NewODTDocument"
IsMutation == IsAdd \/ IsReplace

\* draw:name of every opening frame marker that has one, in order
RECURSIVE NamedFrames(_)
NamedFrames(toks) ==
    IF toks = <<>> THEN <<>>
    ELSE (IF Head(toks).k = "open" /\ Head(toks).name # ""
          THEN <<Head(toks).name>> ELSE <<>>) \o NamedFrames(Tail(toks))

\* position of the first x in seq
FirstPos(seq, x) == First({i \in 1..Len(seq) : seq[i] = x})

----------------------------------------------------------------------------
(* C11 *)

\* C11 as stated: a successful FindImageTags returns the draw:name values of
\* the frames of the content part, each once, in the order in which the
\* first frame of each tag appears in the text; and a FindImageTags that
\* follows a FindImageTags directly returns the same sequence.
\* Refuted: a frame that lies inside another frame is part of the match of
\* the outer frame, and its tag is not returned.
C11_TagsOfAllFrames ==
    /\ [](IsFind /\ op.err = Nil =>
            LET names == NamedFrames(ContentAfter) IN
            /\ {tags[i] : i \in 1..Len(tags)} = {names[i] : i \in 1..Len(names)}
            /\ \A i, j \in 1..Len(tags) :
                  i < j => FirstPos(names, tags[i]) < FirstPos(names, tags[j]))
    /\ [][(IsFind /\ op.err = Nil /\ IsFind' /\ op'.err = Nil) => tags' = tags]_vars

----------------------------------------------------------------------------
(* C12 *)

\* a Save / SaveToBytes that follows a successful Save / SaveToBytes
\* directly writes as many entries as it
SavingAgainSameCount == (SaveOK /\ SaveOK') => Len(out') = Len(out)

\* C12 as stated: with N entries in the original index, a successful Save /
\* SaveToBytes after exactly one successful AddImage writes N+1 entries;
\* after exactly one successful ReplaceImageByTag whose image path is not an
\* original entry name it writes N+1 entries; saving again writes the same
\* number.  Refuted: AddImage with the name of an original entry replaces
\* that entry, and N entries are written.
C12_OneMoreEntry ==
    /\ [](SaveOK /\ Len(hist) = 1 =>
            /\ hist[1].name = "AddImage" => Len(out) = Len(reader) + 1
            /\ (hist[1].name = "ReplaceImageByTag" /\ hist[1].path \notin ReaderNames)
                  => Len(out) = Len(reader) + 1)
    /\ [][SavingAgainSameCount]_vars

\* C12 (amended): with N entries in the original index, a successful Save /
\* SaveToBytes after exactly one successful AddImage or ReplaceImageByTag
\* whose image path is not an original entry name writes N+1 entries, and N
\* entries when the path is an original entry name; saving again without
\* further operations writes the same number of entries.
C12_OneMoreEntryForNewPath ==
    /\ [](SaveOK /\ Len(hist) = 1 =>
            Len(out) = Len(reader) + (IF hist[1].path \in ReaderNames THEN 0 ELSE 1))
    /\ [][SavingAgainSameCount]_vars

C12_Witness ==
    /\ SaveOK
    /\ Len(hist) = 1
    /\ hist[1].name = "AddImage"
    /\ hist[1].path \notin ReaderNames
    /\ Len(out) = Len(reader) + 1

----------------------------------------------------------------------------
(* C13 *)

\* NewODTDocument on the file that the last Save wrote
Reopened == newODTDocument(op.path, Source(out))

\* C13 as stated: when every ReplaceImageByTag / AddImage so far has
\* succeeded and Save succeeds, NewODTDocument on its output succeeds and
\* the index of the reopened document has every original entry name.
\* Refuted: Save writes archives longer than MaxFileSize, which
\* NewODTDocument refuses.
C13_RoundTrip ==
    (op.name = "Save" /\ op.err = Nil /\ Len(hist) = nops) =>
        /\ Reopened.err = Nil
        /\ ReaderNames \subseteq OutNames

----------------------------------------------------------------------------
(* C14 *)

\* an entry whose declared or actual length is over the per-entry cap
Oversize(f) == f.size > MaxIndividualFileSize \/ f.data.len > MaxIndividualFileSize

\* the entry that getFile loads for a name: the first of that name
HasEntry(name) == \E i \in 1..Len(reader) : reader[i].name = name
EntryOf(name) == reader[First({i \in 1..Len(reader) : reader[i].name = name})]

\* the last operation had to load the content part from an oversize entry
LoadsOversizeContent ==
    /\ ContentName \notin DOMAIN pre
    /\ HasEntry(ContentName)
    /\ Oversize(EntryOf(ContentName))

AllNamesValid == \A i \in 1..Len(reader) : validatePath(reader[i].name) = Nil

\* C14 as stated: an operation that has to load an oversize original entry
\* fails with ErrFileTooLarge (FindImageTags and ReplaceImageByTag load the
\* content part, AddImage on an empty overlay loads every entry, Save and
\* SaveToBytes load every entry that the overlay does not have), and the
\* bytes of an oversize entry are in no overlay entry and in no output.
\* Refuted: getContentXML returns ErrContentNotFound for every error of
\* getFile.
C14_OversizeEntryFails ==
    /\ (IsFind /\ LoadsOversizeContent) => op.err = "ErrFileTooLarge"
    /\ (/\ IsReplace /\ op.tag # "" /\ ValidPayload(op.data)
        /\ validateImageName(Base(op.path)) = Nil
        /\ LoadsOversizeContent) => op.err = "ErrFileTooLarge"
    /\ (/\ IsAdd /\ ValidPayload(op.data) /\ validatePath(op.path) = Nil
        /\ pre = <<>> /\ AllNamesValid
        /\ \E i \in 1..Len(reader) : Oversize(reader[i])) => op.err = "ErrFileTooLarge"
    /\ (/\ op.name \in {"Save", "SaveToBytes"}
        /\ op.name = "Save" => validatePath(op.path) = Nil
        /\ AllNamesValid
        /\ \E i \in 1..Len(reader) :
              Oversize(reader[i]) /\ reader[i].name \notin DOMAIN files)
          => op.err = "ErrFileTooLarge"
    /\ \A i \in 1..Len(reader) :
          Oversize(reader[i]) =>
              /\ \A n \in DOMAIN files : files[n] # reader[i].data
              /\ \A j \in DOMAIN out : out[j].data # reader[i].data

----------------------------------------------------------------------------
(* C15 *)

\* C15: NewODTDocument returns a document only when the file is at most
\* MaxFileSize bytes long and the archive has at most MaxFilesInArchive
\* entries, and the document it returns has an empty overlay.  A path that
\* validatePath rejects gives ErrInvalidPath before any file system call; an
\* existing file longer than MaxFileSize gives ErrFileTooLarge after
\* os.Stat and before any read; an archive that zip.NewReader accepts with
\* more than MaxFilesInArchive entries gives ErrTooManyFiles.
C15_OpenChecks ==
    IsOpen =>
        /\ opened <=> op.err = Nil
        /\ op.err = Nil =>
              /\ source.size <= MaxFileSize
              /\ source.nfiles <= MaxFilesInArchive
              /\ files = <<>>
        /\ validatePath(op.path) # Nil => (op.err = "ErrInvalidPath" /\ io = <<>>)
        /\ (validatePath(op.path) = Nil /\ source.exists /\ source.size > MaxFileSize)
              => (op.err = "ErrFileTooLarge" /\ io = <<"stat">>)
        /\ (/\ validatePath(op.path) = Nil /\ source.exists
            /\ source.size <= MaxFileSize /\ source.zip
            /\ source.nfiles > MaxFilesInArchive) => op.err = "ErrTooManyFiles"

C15_Witness ==
    /\ IsOpen
    /\ op.err = Nil
    /\ source.size = MaxFileSize
    /\ reader # <<>>

----------------------------------------------------------------------------
(* C16 *)

\* a call whose other inputs are valid: the first ReplaceImageByTag /
\* AddImage on the archive of the tests, the tag of its first frame, a new
\* image path
OtherInputsValid ==
    /\ reader = WellFormed
    /\ nops = 1
    /\ op.path = NewPng
    /\ IsReplace => op.tag = "image1"

\* C16 as stated: AddImage and ReplaceImageByTag fail on an empty payload,
\* fail with ErrFileTooLarge on a payload longer than MaxIndividualFileSize,
\* in both cases with the overlay as it was before the call, and succeed on
\* a payload of 1 byte and of exactly MaxIndividualFileSize bytes when the
\* other inputs are valid.  Refuted: ReplaceImageByTag checks the tag
\* first, and an empty tag with an oversize payload gives the error of the
\* tag.
C16_PayloadChecked ==
    IsMutation =>
        /\ op.data.len = 0 => (op.err # Nil /\ files = pre)
        /\ op.data.len > MaxIndividualFileSize =>
              (op.err = "ErrFileTooLarge" /\ files = pre)
        /\ (op.data.len \in {1, MaxIndividualFileSize} /\ OtherInputsValid) =>
              op.err = Nil

\* C16 (amended): AddImage and ReplaceImageByTag fail on an empty payload
\* and on a payload longer than MaxIndividualFileSize, with the overlay as
\* it was before the call (nothing is read); the error of the oversize
\* payload is ErrFileTooLarge, except that ReplaceImageByTag with an empty
\* tag returns the error of the tag; they succeed on a payload of 1 byte and
\* of exactly MaxIndividualFileSize bytes when the other inputs are valid.
C16_PayloadCheckedAfterTag ==
    IsMutation =>
        /\ (op.data.len = 0 \/ op.data.len > MaxIndividualFileSize) =>
              (op.err # Nil /\ files = pre)
        /\ op.data.len > MaxIndividualFileSize =>
              op.err = IF IsReplace /\ op.tag = "" THEN "ErrEmptyTag"
                       ELSE "ErrFileTooLarge"
        /\ (op.data.len \in {1, MaxIndividualFileSize} /\ OtherInputsValid) =>
              op.err = Nil

C16_Witness ==
    /\ IsReplace
    /\ op.tag = "image1"
    /\ op.data.len = MaxIndividualFileSize + 1
    /\ op.err = "ErrFileTooLarge"
    /\ pre = <<>>
    /\ files = <<>>
    /\ reader = WellFormed

----------------------------------------------------------------------------
(* C17 *)

\* C17: after a successful AddImage(p, data) or ReplaceImageByTag(T, p,
\* data) the overlay entry p is data; and a successful Save / SaveToBytes
\* writes, for every successful call that no later successful call gave the
\* same path, an entry named p with exactly the bytes data.
C17_ImageStoredVerbatim ==
    /\ (IsMutation /\ op.err = Nil) =>
          (op.path \in DOMAIN files /\ files[op.path] = op.data)
    /\ SaveOK =>
          \A k \in 1..Len(hist) :
              (\A l \in (k + 1)..Len(hist) : hist[l].path # hist[k].path) =>
                  \E i \in DOMAIN out :
                      out[i].name = hist[k].path /\ out[i].data = hist[k].data

C17_Witness ==
    /\ SaveOK
    /\ Len(hist) = 1
    /\ hist[1].name = "AddImage"
    /\ hist[1].data.len = 1
    /\ hist[1].path \in ReaderNames
    /\ \E i \in DOMAIN out :
          /\ out[i].name = hist[1].path
          /\ out[i].data = hist[1].data
          /\ out[i].data # reader[i].data

----------------------------------------------------------------------------
(* C18 *)

\* the text of the manifest as the code reads it after the last operation
ManifestAfter == getManifestXML(files).data.toks

\* C18 as stated: after a successful ReplaceImageByTag or AddImage with
\* image path p the manifest in the overlay has a file-entry record whose
\* full-path is p.  Refuted: a manifest without closing marker is left as it
\* is, and a path with a "$" is written as the expansion of a template.
C18_ManifestHasRecord ==
    (IsMutation /\ op.err = Nil) =>
        /\ ManifestName \in DOMAIN files
        /\ EntryExists(ManifestAfter, op.path)

----------------------------------------------------------------------------
(* C19 *)

\* number of the file-entry records of a manifest whose full-path is p
RecordCount(toks, p) ==
    Cardinality({i \in 1..Len(toks) : toks[i].k = "entry" /\ toks[i].val = p})

ManifestBefore == getManifestXML(pre).data.toks
OriginalManifest ==
    IF HasEntry(ManifestName) THEN EntryOf(ManifestName).data.toks ELSE <<>>

\* the overlays that one more successful call with the path and the payload
\* of the last call can leave behind
AfterSamePathAgain ==
    LET calls == {addImage(files, op.path, op.data)}
                 \cup {replaceImageByTag(files, t, op.path, op.data) : t \in Tags}
    IN  {r.files : r \in {c \in calls : c.err = Nil}}

\* C19: synchronising a path that has a record leaves the manifest as it is:
\* a successful AddImage / ReplaceImageByTag whose path p has a record in
\* the manifest does not change the manifest, and neither does another
\* synchronisation of p after it; so when the original manifest has at most
\* one record for p, the manifest has at most one after the call, and at
\* most one after one more successful call with the same path.
C19_SyncIdempotent ==
    (IsMutation /\ op.err = Nil) =>
        /\ EntryExists(ManifestBefore, op.path) => ManifestAfter = ManifestBefore
        /\ EntryExists(ManifestAfter, op.path) =>
              addImageToManifest(files, op.path).files = files
        /\ RecordCount(OriginalManifest, op.path) <= 1 =>
              /\ RecordCount(ManifestAfter, op.path) <= 1
              /\ \A fs \in AfterSamePathAgain :
                    RecordCount(getManifestXML(fs).data.toks, op.path) <= 1

C19_Witness ==
    /\ IsMutation
    /\ op.err = Nil
    /\ EntryExists(ManifestBefore, op.path)
    /\ ManifestAfter = ManifestBefore
    /\ RecordCount(ManifestAfter, op.path) = 1
    /\ AfterSamePathAgain # {}

----------------------------------------------------------------------------
(* C20 *)

\* the image paths of the successful ReplaceImageByTag / AddImage calls
SuccessfulPaths == {hist[k].path : k \in 1..Len(hist)}

\* C20 as stated: a successful Save / SaveToBytes writes every original
\* entry whose name is not the content part, the manifest or the image path
\* of a successful ReplaceImageByTag / AddImage with the bytes of that
\* original entry.  Refuted: a failed AddImage leaves its image in the
\* overlay, and loadAllFiles keeps one of two entries of the same name.
C20_OtherEntriesVerbatim ==
    SaveOK =>
        \A i \in 1..Len(reader) :
            reader[i].name \notin ({ContentName, ManifestName} \cup SuccessfulPaths) =>
                /\ out[i].name = reader[i].name
                /\ out[i].data = reader[i].data

----------------------------------------------------------------------------
(* C21 *)

IsSaveTo == op.name = "Save" /\ validatePath(op.path) = Nil
IsSaveToBytes == op.name = "SaveToBytes"

\* the entries of two outputs are the same: the entries of the index, one
\* by one, and the same entries after them, in whatever order
SameEntries(o1, o2) ==
    /\ Len(o1) = Len(o2)
    /\ \A i \in 1..Len(o1) : i <= Len(reader) => o1[i] = o2[i]
    /\ {o1[i] : i \in DOMAIN o1} = {o2[i] : i \in DOMAIN o2}

----------------------------------------------------------------------------
(* C22, C23: the two validators as functions of their argument *)

\* the strings tried: every string of at most MaxStrLen characters of
\* PathChars, and the names of MaxNameLen and MaxNameLen + 1 bytes that end
\* with at most one of them
MaxStrLen == 3
PathChars == {".", "/", "\\", "a"}

Strings(n) == UNION {[1..k -> PathChars] : k \in 0..n}
Pad(n) == [i \in 1..n |-> "a"]
LongNames ==
    {Pad(MaxNameLen + d - Len(s)) \o s : s \in Strings(1), d \in {0, 1}}

\* a call of validatePath / validateImageName, at any time in the life of a Document
ValidatePath(path) ==
    /\ op' = [name |-> "validatePath", tag |-> "", path |-> path,
              data |-> NoData, err |-> validatePath(path)]
    /\ UNCHANGED <<source, opened, reader, files, pre, tags, out, io, hist, nops>>

ValidateImageName(name) ==
    /\ op' = [name |-> "validateImageName", tag |-> "", path |-> name,
              data |-> NoData, err |-> validateImageName(name)]
    /\ UNCHANGED <<source, opened, reader, files, pre, tags, out, io, hist, nops>>

ValidatorNext ==
    \/ NewODTDocument(InOdt, Source(WellFormed))
    \/ FindImageTags
    \/ \E p \in Strings(MaxStrLen) : ValidatePath(p)
    \/ \E n \in Strings(MaxStrLen) \cup LongNames : ValidateImageName(n)

ValidatorSpec == Init /\ [][ValidatorNext]_vars

HasChar(s, c) == \E i \in DOMAIN s : s[i] = c
HasTwoDots(s) == \E i \in DOMAIN s : i < Len(s) /\ s[i] = "." /\ s[i + 1] = "."

\* C22: validatePath returns ErrInvalidPath for the empty string and for the
\* strings with "..", nil for every other string, relative or absolute, and
\* changes nothing of the Document.
C22_ValidatePathExact ==
    /\ [](op.name = "validatePath" =>
            op.err = (IF op.path = <<>> \/ HasTwoDots(op.path)
                      THEN "ErrInvalidPath" ELSE Nil))
    /\ [][op'.name = "validatePath" =>
            UNCHANGED <<source, opened, reader, files, hist>>]_vars

C22_Witness ==
    /\ op.name = "validatePath"
    /\ op.path # <<>>
    /\ op.path[1] = "/"
    /\ op.err = Nil
    /\ files # <<>>

\* C23: validateImageName returns ErrInvalidImageName for the names that are
\* empty, have "..", "/" or "\", or are longer than 255 bytes, and nil for
\* every other name, one of exactly 255 bytes included.
C23_ValidateImageNameExact ==
    op.name = "validateImageName" =>
        op.err = (IF \/ op.path = <<>>
                     \/ HasTwoDots(op.path)
                     \/ HasChar(op.path, "/")
                     \/ HasChar(op.path, "\\")
                     \/ Len(op.path) > 255
                  THEN "ErrInvalidImageName" ELSE Nil)

C23_Witness ==
    /\ op.name = "validateImageName"
    /\ Len(op.path) = 255
    /\ HasChar(op.path, ".")
    /\ op.err = Nil

----------------------------------------------------------------------------
(* C24: the request handler *)

\* what the client and the decoder make of a request's sources: the template
\* as a file (not fetched when exists is FALSE), every image as its bytes or
\* as NoImage when fetching or decoding it failed
NoImage == Blob("failed", 0)
MagicLen == 12
Jpeg == Blob("jpeg", MagicLen)

Pictures == <<"P","i","c","t","u","r","e","s","/">>
DotPng == <<".","p","n","g">>
DotJpg == <<".","j","p","g">>

\* the characters of a tag
Chars(tag) ==
    CASE tag = "image1" -> <<"i","m","a","g","e","1">>
      [] tag = "photo1" -> <<"p","h","o","t","o","1">>
      [] tag = "nosuch" -> <<"n","o","s","u","c","h">>
      [] OTHER -> <<>>

\* detectImageExtension: the extension of the format whose signature the
\* data starts with
detectImageExtension(data) ==
    IF data.len < MagicLen THEN <<>>
    ELSE IF data.id = "jpeg" THEN DotJpg
    ELSE <<>>

\* getTemplateData, by fetchImageFromURL or decodeBase64Image
getTemplateData(template) ==
    IF ~template.exists THEN "ErrFetch"
    ELSE IF template.size > MaxIndividualFileSize THEN "ErrFileTooLarge"
    ELSE Nil

\* NewODTDocumentFromBytes
TmpOdt == <<"/","t","m","p","/","o","d","t","-","1",".","o","d","t">>
newODTDocumentFromBytes(template) ==
    IF template.size > MaxFileSize THEN "ErrFileTooLarge"
    ELSE newODTDocument(TmpOdt, template).err

\* the path that the handler gives the image of a tag
imagePathOf(tag, imageData) ==
    Pictures \o Chars(tag) \o
        (IF imageData.len > 0 /\ detectImageExtension(imageData) # <<>>
         THEN detectImageExtension(imageData) ELSE DotPng)

\* F(v), with v worked out once
With(v, F(_)) == CHOOSE y \in {F(x) : x \in {v}} : TRUE

\* the loop over req.Data, in the order in which the map is ranged over:
\* the overlay left behind and the outcome of every tag
RECURSIVE processTags(_, _, _)
processTags(fs, order, data) ==
    IF order = <<>> THEN [files |-> fs, calls |-> <<>>]
    ELSE LET tag == Head(order)
             img == data[tag]
             Then(r) ==
                 With(processTags(r.files, Tail(order), data),
                      LAMBDA rest :
                          [files |-> rest.files,
                           calls |-> <<[tag |-> tag, err |-> r.err]>> \o rest.calls])
         IN  With(IF img = NoImage THEN [err |-> "ErrGetImage", files |-> fs]
                  ELSE replaceImageByTag(fs, tag, imagePathOf(tag, img), img),
                  Then)

\* faulty variant: a tag is listed whatever its outcome
replacedAny(calls) == calls

replacedTags(calls) == SelectSeq(calls, LAMBDA c : c.err = Nil)

\* the response and the archive returned for a Document opened on the
\* template: SaveToBytes after the loop when a tag was replaced
saveAfter(p) ==
    IF replacedTags(p.calls) = <<>>
    THEN [err |-> "no images replaced", files |-> p.files, calls |-> p.calls,
          out |-> {<<>>}]
    ELSE With(writeOriginals(p.files, 1),
              LAMBDA w :
                  IF w.err # Nil
                  THEN [err |-> "save output", files |-> p.files, calls |-> p.calls,
                        out |-> {<<>>}]
                  ELSE [err |-> Nil, files |-> p.files, calls |-> p.calls,
                        out |-> {w.out \o writeNew(p.files, o) :
                                    o \in Orders(NewNames(p.files))}])

processRequest(order, data) == With(processTags(<<>>, order, data), saveAfter)

RequestTags == {"image1", "photo1", "nosuch"}
ImageSources == {Img1, Jpeg, NoImage}
Requests == UNION {[T -> ImageSources] : T \in SUBSET RequestTags}

\* a request received: source and reader are the file and the archive index
\* that the request's template decodes to
RequestInit ==
    /\ \E template \in Sources :
          /\ source = [exists |-> template.exists, size |-> template.size,
                       zip |-> template.zip, nfiles |-> template.nfiles]
          /\ reader = template.entries
    /\ opened = FALSE
    /\ files = <<>>
    /\ pre = <<>>
    /\ op = NoOp
    /\ tags = <<>>
    /\ out = <<>>
    /\ io = <<>>
    /\ hist = <<>>
    /\ nops = 0

\* ProcessReplaceRequestWithClient: hist has the outcome of every tag, tags
\* the response's replaced_tags, out the archive returned
ProcessReplaceRequestWithClient(data, order) ==
    /\ op = NoOp
    /\ LET early == IF DOMAIN data = {} THEN "no images to replace"
                    ELSE IF getTemplateData(source) # Nil THEN "get template"
                    ELSE IF newODTDocumentFromBytes(source) # Nil THEN "parse template"
                    ELSE Nil
       IN  IF early # Nil
           THEN /\ files' = <<>>
                /\ hist' = <<>>
                /\ tags' = <<>>
                /\ out' = <<>>
                /\ op' = [name |-> "ProcessReplaceRequest", tag |-> "", path |-> <<>>,
                          data |-> data, err |-> early]
           ELSE \E res \in {processRequest(order, data)} :
                /\ files' = res.files
                /\ hist' = res.calls
                /\ tags' = [i \in DOMAIN replacedTags(res.calls) |->
                               replacedTags(res.calls)[i].tag]
                /\ out' \in res.out
                /\ op' = [name |-> "ProcessReplaceRequest", tag |-> "",
                          path |-> <<>>, data |-> data, err |-> res.err]
    /\ pre' = <<>>
    /\ io' = <<>>
    /\ UNCHANGED <<source, reader, opened, nops>>

RequestNext ==
    \E data \in Requests :
        \E order \in Orders(DOMAIN data) :
            ProcessReplaceRequestWithClient(data, order)

RequestSpec == RequestInit /\ [][RequestNext]_vars


\* the outcome of the request's tags
IsRequest == op.name = "ProcessReplaceRequest"
Succeeded == {hist[i].tag : i \in {j \in DOMAIN hist : hist[j].err = Nil}}
Failed == {hist[i].tag : i \in {j \in DOMAIN hist : hist[j].err # Nil}}

\* every original entry that the overlay does not have can be loaded
OriginalsLoad ==
    \A i \in 1..Len(reader) :
        reader[i].name \in DOMAIN files \/ loadFile(reader[i]).err = Nil

\* the archive returned has no entry, reference or manifest record of path p
NoTraceOf(p) ==
    \A i \in DOMAIN out :
        /\ out[i].name # p
        /\ \A x \in DOMAIN out[i].data.toks :
              LET t == out[i].data.toks[x] IN
              ~(t.k \in {"href", "entry"} /\ t.val = p)

----------------------------------------------------------------------------
(* C25 *)

\* the same ReplaceImageByTag call once more
SameReplaceAgain == replaceImageByTag(files, op.tag, op.path, op.data)

\* C25 as stated: after a successful ReplaceImageByTag the same call
\* succeeds again and leaves the overlay, the content part and the manifest
\* in it included, as it is.
\* Refuted: the second call changes nothing in the content part, which the
\* code takes for a missing tag.
C25_ReplaceIdempotent ==
    (IsReplace /\ op.err = Nil) =>
        /\ SameReplaceAgain.err = Nil
        /\ SameReplaceAgain.files = files

----------------------------------------------------------------------------
(* C26 *)

\* what Save / SaveToBytes returns for an overlay: the error, or the
\* archives it can write
SaveOf(fs) ==
    LET w == writeOriginals(fs, 1) IN
    IF w.err # Nil THEN [err |-> w.err, out |-> {}]
    ELSE [err |-> Nil,
          out |-> {w.out \o writeNew(fs, o) : o \in Orders(NewNames(fs))}]

\* two overlays are the same to the caller of r1 and r2, two results of the
\* same call: the same error, and the same outcome of a save after it
SameOutcome(r1, r2) ==
    /\ r1.err = r2.err
    /\ SaveOf(r1.files) = SaveOf(r2.files)

\* C26 as stated: an AddImage, a ReplaceImageByTag or a save has the same
\* outcome, and a save after it writes the same entries, whether or not
\* FindImageTags was called before it.
\* Refuted: FindImageTags leaves the content part in the overlay, and
\* AddImage loads the original entries only into an empty overlay.
C26_FindIsReadOnly ==
    IsFind =>
        /\ SaveOf(files) = SaveOf(pre)
        /\ \A in \in AddInputs :
              SameOutcome(addImage(files, in[1], in[2]), addImage(pre, in[1], in[2]))
        /\ \A in \in ReplaceInputs :
              SameOutcome(replaceImageByTag(files, in[1], in[2], in[3]),
                          replaceImageByTag(pre, in[1], in[2], in[3]))

----------------------------------------------------------------------------
(* C27 *)

\* C27 as stated: every entry of the overlay is at most
\* MaxIndividualFileSize bytes long.
\* Refuted: the manifest and the content part are stored after a rewrite
\* without a look at their length.
C27_OverlayWithinCap ==
    \A n \in DOMAIN files : files[n].len <= MaxIndividualFileSize

----------------------------------------------------------------------------
(* C28 *)

\* C28 as stated: after a successful ReplaceImageByTag / AddImage the content
\* part and the manifest in the overlay are text, not the bytes of an image
\* payload.
\* Refuted: an image path that is the name of a part is stored like any other.
C28_PartsNotPayload ==
    (IsMutation /\ op.err = Nil) =>
        \A n \in {ContentName, ManifestName} \cap DOMAIN files :
            /\ files[n].kind = "text"
            /\ files[n] # op.data

----------------------------------------------------------------------------
(* C29 *)

IsSave == op.name \in {"Save", "SaveToBytes"}

\* C29: Save and SaveToBytes leave the overlay as it was, whether they
\* succeed or fail; so one more save after a save that got past the check
\* of its path ends the same way, with the same error or with the same
\* entry names and bytes.
C29_SaveLeavesOverlay ==
    IsSave =>
        /\ files = pre
        /\ (op.name = "Save" => validatePath(op.path) = Nil) =>
              /\ SaveOf(files).err = op.err
              /\ op.err = Nil => out \in SaveOf(files).out

C29_Witness ==
    /\ SaveOK
    /\ NewNames(files) # {}
    /\ \E i \in 1..Len(reader) : reader[i].name \notin DOMAIN files
    /\ \E n \in DOMAIN files : files[n] # NoData

----------------------------------------------------------------------------
(* C30 *)

\* C30: a successful Save / SaveToBytes writes the entries of the original
\* index first, in the order of the index, and every entry that only the
\* overlay has after them; so the first entry of the original archive is
\* the first entry of the output.
C30_OriginalsFirstInOrder ==
    SaveOK =>
        /\ Len(out) >= Len(reader)
        /\ \A i \in 1..Len(reader) : out[i].name = reader[i].name
        /\ \A i \in (Len(reader) + 1)..Len(out) :
              /\ out[i].name \in DOMAIN files
              /\ out[i].name \notin ReaderNames
        /\ \A n \in (DOMAIN files) \ ReaderNames :
              \E i \in (Len(reader) + 1)..Len(out) : out[i].name = n
        /\ reader # <<>> => out[1].name = reader[1].name

C30_Witness ==
    /\ SaveOK
    /\ hist # <<>>
    /\ Len(out) > Len(reader)
    /\ out[1].name = MimetypeName
    /\ \E i \in 1..Len(reader) : out[i].data # reader[i].data

====
